---- MODULE Spec2Model ----
(***************************************************************************)
(* Queryguard: a 1:1 proxy between a database client and a server speaking *)
(* the classic opcode-framed wire protocol (src/proxy.go).                 *)
(*                                                                         *)
(* The model keeps the byte level of the protocol: the client stream, the  *)
(* bytes written upstream and the bytes written to the client are          *)
(* sequences of bytes (0..255); headers, C-strings and documents are       *)
(* parsed from and serialised to those bytes as the code does.  A double   *)
(* is carried as the integer it denotes and laid out on 8 bytes.           *)
(***************************************************************************)
EXTENDS Integers, Sequences, FiniteSets, TLC

(***************************************************************************)
(* Bytes and strings                                                       *)
(***************************************************************************)

\* the printable ASCII characters, in code order, starting at code 32 (code
\* 96, which no name of the protocol uses, is held by a blank)
Ascii ==
  " !\"#$%&'()*+,-./0123456789:;<=>?@ABCDEFGHIJKLMNOPQRSTUVWXYZ[\\]^_ abcdefghijklmnopqrstuvwxyz{|}~"

\* character -> code and code -> character
CodeOf ==
  [c \in {SubSeq(Ascii, i, i) : i \in 1..Len(Ascii)} |->
     31 + (CHOOSE i \in 1..Len(Ascii) :
             /\ SubSeq(Ascii, i, i) = c
             /\ \A j \in 1..(i - 1) : SubSeq(Ascii, j, j) # c)]

CharOf == [i \in 1..Len(Ascii) |-> SubSeq(Ascii, i, i)]

Code(c) == CodeOf[c]

Chr(b) == CharOf[b - 31]

StrBytes(s) == [i \in 1..Len(s) |-> Code(SubSeq(s, i, i))]

RECURSIVE BytesStr(_)
BytesStr(bs) == IF bs = <<>> THEN "" ELSE Chr(Head(bs)) \o BytesStr(Tail(bs))

\* string with its terminating zero byte
CString(s) == StrBytes(s) \o <<0>>

Pow256(k) == CASE k = 0 -> 1 [] k = 1 -> 256 [] k = 2 -> 65536 [] k = 3 -> 16777216

\* int32, little-endian, two's complement
LE32(v) ==
  [i \in 1..4 |-> IF v >= 0 THEN (v \div Pow256(i - 1)) % 256
                  ELSE 255 - ((((0 - v) - 1) \div Pow256(i - 1)) % 256)]

GetInt32(b, i) ==
  IF b[i + 3] < 128
  THEN b[i] + 256 * b[i + 1] + 65536 * b[i + 2] + 16777216 * b[i + 3]
  ELSE (0 - 1) - ((255 - b[i]) + 256 * (255 - b[i + 1]) + 65536 * (255 - b[i + 2])
                  + 16777216 * (255 - b[i + 3]))

\* a number on 8 bytes: the low word, then its sign extension
LE64(v) == LE32(v) \o [i \in 1..4 |-> IF v >= 0 THEN 0 ELSE 255]

GetInt64(b, i) == GetInt32(b, i)

RECURSIVE Flatten(_)
Flatten(ss) == IF ss = <<>> THEN <<>> ELSE Head(ss) \o Flatten(Tail(ss))

HasSuffix(b, suf) ==
  Len(b) >= Len(suf) /\ SubSeq(b, Len(b) - Len(suf) + 1, Len(b)) = suf

Contains(b, sub) ==
  \E i \in 0..(Len(b) - Len(sub)) : SubSeq(b, i + 1, i + Len(sub)) = sub

\* strings.TrimLeft(s, c) for a one-character cutset
RECURSIVE TrimLeft(_, _)
TrimLeft(s, c) ==
  IF Len(s) > 0 /\ SubSeq(s, 1, 1) = c THEN TrimLeft(SubSeq(s, 2, Len(s)), c) ELSE s

RECURSIVE TrimRight(_, _)
TrimRight(s, c) ==
  IF Len(s) > 0 /\ SubSeq(s, Len(s), Len(s)) = c
  THEN TrimRight(SubSeq(s, 1, Len(s) - 1), c) ELSE s

\* strings.Trim(s, c) for a one-character cutset
Trim(s, c) == TrimRight(TrimLeft(s, c), c)

LowerByte(b) == IF b >= 65 /\ b <= 90 THEN b + 32 ELSE b

\* strings.EqualFold on ASCII strings
EqualFold(s, t) ==
  /\ Len(s) = Len(t)
  /\ \A i \in 1..Len(s) :
       LowerByte(Code(SubSeq(s, i, i))) = LowerByte(Code(SubSeq(t, i, i)))

\* index of the first "." of s, 0 if there is none
FirstDot(s) ==
  IF \E i \in 1..Len(s) : SubSeq(s, i, i) = "."
  THEN CHOOSE i \in 1..Len(s) :
         /\ SubSeq(s, i, i) = "."
         /\ \A j \in 1..(i - 1) : SubSeq(s, j, j) # "."
  ELSE 0

\* index of the first zero byte of b after position p, 0 if there is none
FirstZero(b, p) ==
  IF \E i \in (p + 1)..Len(b) : b[i] = 0
  THEN CHOOSE i \in (p + 1)..Len(b) : b[i] = 0 /\ \A j \in (p + 1)..(i - 1) : b[j] # 0
  ELSE 0

(***************************************************************************)
(* Wire codec: message header                                              *)
(***************************************************************************)

headerLen == 16

OpReply == 1
OpMsg == 1000
OpUpdate == 2001
OpInsert == 2002
OpQuery == 2004
OpGetMore == 2005
OpDelete == 2006
OpKillCursors == 2007

HasResponse(op) == op = OpQuery \/ op = OpGetMore

messageHeader(len, req, resp, op) ==
  [MessageLength |-> len, RequestID |-> req, ResponseTo |-> resp, OpCode |-> op]

ToWire(h) ==
  LE32(h.MessageLength) \o LE32(h.RequestID) \o LE32(h.ResponseTo) \o LE32(h.OpCode)

\* the header held by 16 bytes of stream b after position p
FromWire(b, p) ==
  messageHeader(GetInt32(b, p + 1), GetInt32(b, p + 5), GetInt32(b, p + 9),
                GetInt32(b, p + 13))

(***************************************************************************)
(* Documents: an ordered sequence of (Name, Value) elements.  A value is a *)
(* pair <<type, payload>> of type "double", "string", "doc" or "int32".    *)
(***************************************************************************)

DocElem(name, value) == [Name |-> name, Value |-> value]

Dbl(n) == <<"double", n>>
Str(t) == <<"string", t>>
Doc(d) == <<"doc", d>>
I32(n) == <<"int32", n>>

IsDoc(v) == v[1] = "doc"
IsString(v) == v[1] = "string"
IsFloat64(v) == v[1] = "double"

TagByte(v) ==
  CASE v[1] = "double" -> 1 [] v[1] = "string" -> 2 [] v[1] = "doc" -> 3
    [] v[1] = "int32" -> 16

RECURSIVE Marshal(_)
RECURSIVE MarshalElems(_)

MarshalValue(v) ==
  CASE v[1] = "double" -> LE64(v[2])
    [] v[1] = "string" -> LE32(Len(v[2]) + 1) \o CString(v[2])
    [] v[1] = "doc" -> Marshal(v[2])
    [] v[1] = "int32" -> LE32(v[2])

MarshalElems(d) ==
  IF d = <<>> THEN <<>>
  ELSE <<TagByte(Head(d).Value)>> \o CString(Head(d).Name)
         \o MarshalValue(Head(d).Value) \o MarshalElems(Tail(d))

\* bson.Marshal: int32 total length, the elements, a zero byte
Marshal(d) == LET body == MarshalElems(d) IN LE32(Len(body) + 5) \o body \o <<0>>

Bad == [ok |-> FALSE, d |-> <<>>]

\* number of bytes of the value of type byte tag that starts at b[p];
\* -1 if the type is not one of the four or the bytes do not hold it
ValueLen(tag, b, p) ==
  LET n == CASE tag = 1 -> 8
             [] tag = 16 -> 4
             [] tag = 2 -> IF p + 3 <= Len(b) /\ GetInt32(b, p) >= 1
                           THEN 4 + GetInt32(b, p) ELSE 0 - 1
             [] tag = 3 -> IF p + 3 <= Len(b) /\ GetInt32(b, p) >= 5
                           THEN GetInt32(b, p) ELSE 0 - 1
             [] OTHER -> 0 - 1
  IN  IF n >= 0 /\ p + n - 1 < Len(b) THEN n ELSE 0 - 1

RECURSIVE Unmarshal(_)
RECURSIVE ParseElems(_, _)

\* the elements of document b from index i up to its terminating zero
ParseElems(b, i) ==
  IF i > Len(b) THEN Bad
  ELSE IF b[i] = 0 THEN (IF i = Len(b) THEN [ok |-> TRUE, d |-> <<>>] ELSE Bad)
  ELSE
    LET tag == b[i]
        z == FirstZero(b, i)
        n == ValueLen(tag, b, z + 1)
        raw == SubSeq(b, z + 1, z + n)
        sub == Unmarshal(raw)
        val == CASE tag = 1 -> Dbl(GetInt64(raw, 1))
                 [] tag = 16 -> I32(GetInt32(raw, 1))
                 [] tag = 2 -> Str(BytesStr(SubSeq(raw, 5, n - 1)))
                 [] tag = 3 -> Doc(sub.d)
        rest == ParseElems(b, z + n + 1)
    IN  IF z = 0 \/ n < 0 \/ (tag = 3 /\ ~sub.ok) \/ (tag = 2 /\ raw[n] # 0)
             \/ (\E k \in (i + 1)..(z - 1) : b[k] < 32 \/ b[k] > 126)
        THEN Bad
        ELSE IF rest.ok
             THEN [ok |-> TRUE,
                   d |-> <<DocElem(BytesStr(SubSeq(b, i + 1, z - 1)), val)>> \o rest.d]
             ELSE Bad

\* bson.Unmarshal into an ordered document
Unmarshal(b) ==
  IF Len(b) < 5 \/ GetInt32(b, 1) # Len(b) \/ b[Len(b)] # 0 THEN Bad
  ELSE ParseElems(b, 5)

(***************************************************************************)
(* Configuration and the cluster seen through the control channel          *)
(***************************************************************************)

\* Proxy.messageTimeout, in seconds
messageTimeout == 5

\* text of a time.Duration of a whole number of seconds below ten
DurationString(secs) == SubSeq("0123456789", secs + 1, secs + 1) \o "s"

\* client.RemoteAddr().String()
RemoteAddr == "10.0.0.9:5000"

\* uuid.New("Q"): the n-th identifier generated
NewUUID(n) == "Q" \o SubSeq("0123456789", n + 1, n + 1)

\* what Count() and Indexes() answer for a collection; each index is the
\* ordered list of its key fields
Cluster(ns) ==
  CASE ns = "app.users" -> [count |-> 3, indexes |-> << <<"_id">>, <<"-Email", "name">> >>]
    [] ns = "app.logs"  -> [count |-> 2, indexes |-> << <<"_id">> >>]
    [] OTHER            -> [count |-> 0, indexes |-> << >>]

(***************************************************************************)
(* Pure helpers of the proxy                                               *)
(***************************************************************************)

cmdCollectionSuffix == StrBytes(".$cmd") \o <<0>>
indexCollectionSuffix == StrBytes(".indexes") \o <<0>>
systemCollection == StrBytes(".system.")
errorBytes == <<0, 0, 0, 1, 0, 0, 0, 0, 0, 0, 0, 0, 0, 0, 0, 0, 0, 0, 0, 1>>

\* position (from 1) of the first element whose name, leading "$" removed,
\* equals k ignoring case; 0 stands for the code's -1
keyIndex(d, k) ==
  IF \E i \in 1..Len(d) : EqualFold(TrimLeft(d[i].Name, "$"), k)
  THEN CHOOSE i \in 1..Len(d) :
         /\ EqualFold(TrimLeft(d[i].Name, "$"), k)
         /\ \A j \in 1..(i - 1) : ~EqualFold(TrimLeft(d[j].Name, "$"), k)
  ELSE 0

hasKey(d, k) == keyIndex(d, k) > 0

\* [panic]: the split has one part only and split[1] is out of range
splitDatabaseCollection(fullName) ==
  LET i == FirstDot(fullName)
  IN  IF i = 0 THEN [panic |-> TRUE, database |-> fullName, collection |-> ""]
      ELSE [panic |-> FALSE, database |-> SubSeq(fullName, 1, i - 1),
            collection |-> SubSeq(fullName, i + 1, Len(fullName))]

\* [panic]: index out of range on an empty orderby document
firstIndexableField(query) ==
  LET ob == keyIndex(query, "orderby")
      first == [panic |-> FALSE, name |-> query[1].Name]
  IN  IF TrimLeft(query[1].Name, "$") = "query" /\ Len(query) > 1
      THEN IF IsDoc(query[1].Value) /\ Len(query[1].Value[2]) > 0
           THEN [panic |-> FALSE, name |-> query[1].Value[2][1].Name]
           ELSE IF ob > 0
                THEN CASE IsDoc(query[ob].Value) ->
                            IF Len(query[ob].Value[2]) = 0
                            THEN [panic |-> TRUE, name |-> ""]
                            ELSE [panic |-> FALSE, name |-> query[ob].Value[2][1].Name]
                       [] IsString(query[ob].Value) ->
                            [panic |-> FALSE, name |-> Trim(query[ob].Value[2], "-")]
                       [] OTHER -> first
                ELSE first
      ELSE first

\* count and indexes are what the control channel answered (0 and none
\* when the lookup failed)
checkForIndex(count, indexes, query) ==
  IF count = 0 THEN [panic |-> FALSE, ok |-> TRUE]
  ELSE LET f == firstIndexableField(query)
       IN  IF f.panic THEN [panic |-> TRUE, ok |-> FALSE]
           ELSE [panic |-> FALSE,
                 ok |-> \E i \in 1..Len(indexes) :
                          EqualFold(Trim(indexes[i][1], "-"), f.name)]

\* the cap on maxTimeMS, in milliseconds
maxTimeMS == (messageTimeout - 1) * 1000

queryGuard(remoteAddr, queryID) ==
  DocElem("$queryGuard",
          Doc(<<DocElem("remoteaddr", Str(remoteAddr)), DocElem("track", Str(queryID))>>))

\* [panic]: the type assertion on a maxTimeMS value that is not a float64
mutateQuery(query, remoteAddr, queryID) ==
  LET wrapped == IF ~(Len(query) > 1 /\ TrimLeft(query[1].Name, "$") = "query")
                 THEN <<DocElem("$query", Doc(query))>>
                 ELSE query
      index == keyIndex(wrapped, "maxTimeMS")
      capped == IF index > 0
                THEN IF wrapped[index].Value[2] > maxTimeMS
                     THEN [wrapped EXCEPT ![index].Value = Dbl(maxTimeMS)]
                     ELSE wrapped
                ELSE Append(wrapped, DocElem("$maxTimeMS", Dbl(maxTimeMS)))
  IN  IF index > 0 /\ ~IsFloat64(wrapped[index].Value)
      THEN [panic |-> TRUE, q |-> wrapped]
      ELSE [panic |-> FALSE, q |-> Append(capped, queryGuard(remoteAddr, queryID))]

\* flattenQuery: every leaf of the document is stored under the names on
\* its path joined by dots; a later leaf replaces an earlier one of the same
\* path
RECURSIVE flattenElems(_, _, _)
RECURSIVE flattenQuery(_, _, _)
flattenElems(elems, name, result) ==
  IF elems = << >> THEN result
  ELSE flattenElems(Tail(elems), name,
                    flattenQuery(Head(elems).Value,
                                 name \o "." \o Head(elems).Name, result))

flattenQuery(d, name, result) ==
  IF IsDoc(d) THEN flattenElems(d[2], name, result) ELSE (name :> d) @@ result

\* time.Now().Sub(queryStart), in whole seconds: the deadline of the
\* message fires messageTimeout after the dispatch, another read error
\* comes at once
Elapsed(rsp) == IF rsp = "timeout" THEN messageTimeout ELSE 0

\* a filter that would name the operation kind, the namespace and the
\* running time only
OpFilterByNamespace(fullCollectionString, queryID, q, secs) ==
  ("secs_running" :> Doc(<<DocElem("$gte", Dbl(secs - 1))>>))
    @@ ("op" :> Str("query")) @@ ("ns" :> Str(fullCollectionString))

\* lines 256-264: the filter of the lookup of operations in progress;
\* queryID is the variable declared at line 171
OpFilter(fullCollectionString, queryID, q, secs) ==
  LET f == ("op" :> Str("query")) @@ ("ns" :> Str(fullCollectionString))
  IN  IF queryID = ""
      THEN flattenQuery(Doc(q), "query",
                        ("secs_running" :> Doc(<<DocElem("$gte", Dbl(secs - 1))>>)) @@ f)
      ELSE ("query.$queryGuard.track" :> Str(queryID)) @@ f

\* the three parts sendErrorToClient writes to the client
sendErrorToClient(h, text, code) ==
  LET errorDoc == Marshal(<<DocElem("$err", Str(text)), DocElem("code", I32(code))>>)
      errorHeader == messageHeader(headerLen + Len(errorBytes) + Len(errorDoc),
                                   h.RequestID, h.RequestID, OpReply)
  IN  <<ToWire(errorHeader), errorBytes, errorDoc>>

NoIndexText(collection) ==
  "No index was found that could be used for your query try db." \o collection
    \o ".getIndexes()"

TimeLimitText ==
  "Your query exceeded the time limit of " \o DurationString(messageTimeout)
    \o " and has been killed"

KilledText(errText) == "Error: " \o errText \o ". Your query has been killed"

(***************************************************************************)
(* The client and the server                                               *)
(***************************************************************************)

\* a client message: header (responseTo 0) and body
ClientMsg(op, req, body) ==
  ToWire(messageHeader(headerLen + Len(body), req, 0, op)) \o body

\* body of a Query: flags, namespace, skip/return, the query document and
\* an optional returnFieldsSelector (already serialised)
QueryBody(ns, doc, selector) ==
  LE32(0) \o CString(ns) \o LE32(0) \o LE32(10) \o Marshal(doc) \o selector

Email(v) == DocElem("email", Str(v))
Wrapped(d) == DocElem("$query", Doc(d))

NoSelector == << >>
ShortSelector == Marshal(<<DocElem("a", I32(1))>>)
LongSelector == Marshal(<<DocElem("email", I32(1)), DocElem("name", I32(1))>>)

\* the kinds of message the client chooses from
Kinds == 1..16

\* the i-th kind of client message, sent with request id req
ClientKind(i, req) ==
  CASE i = 1 -> ClientMsg(OpUpdate, req,
                  LE32(0) \o CString("app.users") \o LE32(0)
                    \o Marshal(<<Email("x")>>) \o Marshal(<<Email("y")>>))
    [] i = 2 -> ClientMsg(OpGetMore, req,
                  LE32(0) \o CString("app.users") \o LE32(10) \o LE64(req))
    [] i = 3 -> ClientMsg(OpQuery, req,
                  QueryBody("admin.$cmd", <<DocElem("ismaster", I32(1))>>, NoSelector))
    [] i = 4 -> ClientMsg(OpQuery, req,
                  QueryBody("app.users", <<Email("x")>>, LongSelector))
    [] i = 5 -> ClientMsg(OpQuery, req,
                  QueryBody("app.logs", <<DocElem("name", Str("x"))>>, NoSelector))
    [] i = 6 -> ClientMsg(OpQuery, req,
                  QueryBody("app.users", <<DocElem("name", Str("x"))>>, ShortSelector))
    [] i = 7 -> ClientMsg(OpQuery, req,
                  QueryBody("app.users", <<DocElem("name", Str("x"))>>, LongSelector))
    [] i = 8 -> ClientMsg(OpQuery, req,
                  QueryBody("app.fresh", <<Wrapped(<<Email("x")>>)>>, NoSelector))
    [] i = 9 -> ClientMsg(OpQuery, req,
                  QueryBody("app.users", <<Wrapped(<<Email("x")>>)>>, NoSelector))
    [] i = 10 -> ClientMsg(OpQuery, req,
                   QueryBody("app.users",
                     <<Wrapped(<<Email("x")>>), DocElem("maxTimeMS", Dbl(999999))>>,
                     NoSelector))
    [] i = 11 -> ClientMsg(OpQuery, req,
                   QueryBody("app.users",
                     <<Wrapped(<<Email("x")>>), DocElem("maxTimeMS", I32(9))>>,
                     NoSelector))
    [] i = 12 -> ClientMsg(OpQuery, req,
                   QueryBody("app.users",
                     <<Wrapped(<<Email("x")>>),
                       DocElem("$queryGuard", Doc(<<DocElem("track", Str("T"))>>))>>,
                     NoSelector))
    [] i = 13 -> ClientMsg(OpQuery, req, QueryBody("app.users", << >>, NoSelector))
    [] i = 14 -> ClientMsg(OpQuery, req,
                   QueryBody("app.users",
                     <<DocElem("query", Doc(<< >>)), DocElem("$orderby", Str("-email"))>>,
                     ShortSelector))
    [] i = 15 -> ClientMsg(OpQuery, req,
                   QueryBody("app.system.users", <<DocElem("user", Str("x"))>>,
                     ShortSelector))
    [] i = 16 -> ClientMsg(OpQuery, req,
                   QueryBody("app.users",
                     <<DocElem("EMAIL", Str("x")), DocElem("maxTimeMS", Dbl(5))>>,
                     NoSelector))

\* the reply the server sends to request req: 20 bytes of reply fields and
\* one empty document
ServerReply(req) ==
  ToWire(messageHeader(headerLen + 20 + 5, 77, req, OpReply))
    \o <<0, 0, 0, 0, 0, 0, 0, 0, 0, 0, 0, 0, 0, 0, 0, 0, 1, 0, 0, 0>> \o Marshal(<< >>)

(***************************************************************************)
(* State of one client connection and its pump                             *)
(***************************************************************************)

\* number of messages the client sends on the connection
MaxMsgs == 2

\* number of messages the client may have sent of which the pump has read
\* nothing yet
MaxUnread == 1

VARIABLES
  cin,        \* the bytes the client sent and the pump has not read yet
  tags,       \* for each byte of cin: "H" the first byte of a client message,
              \* "B" another byte, "R" a byte of a message that checkForIndex
              \* rejected
  nsent,      \* number of messages the client has sent
  pc,         \* position of the pump: "dial", "header", "dispatch",
              \* "reconnect", "closed" (returned) or "panic"
  h,          \* the header read by clientReadHeader
  hsrc,       \* the 16 bytes that header was read from, and their tags
  cli,        \* client socket: "open" or "closed"
  srv,        \* upstream socket s: "open", "closed" or "none" (nil)
  ids,        \* number of tracking ids generated so far
  leaked,     \* a byte of a rejected message was written upstream
  faults,     \* a call of handleMessage has returned an error
  last,       \* what the call of handleMessage that just returned did
  up          \* the request ids of the replies the server has written, or
              \* will write, on the upstream socket s and the pump has not
              \* read

pumpVars == <<cin, tags, nsent, pc, h, hsrc, cli, srv, ids, leaked, faults, last, up>>

\* The listener and the pumps it starts, one goroutine per accepted
\* connection, all in one process and sharing the control channel
VARIABLES
  listener,   \* "accepting", or "dead" once the process has ended
  pumps,      \* for each pump: its position, its two sockets, the message
              \* it handles, the tracking id of its query
  inprog,     \* the operations in progress on the server
  lookups,    \* the lookup made by the step just taken, if any: by which
              \* pump, for which tracking id, the constraint of the filter
              \* on query.$queryGuard.track, the pumps whose operations
              \* were found and killed
  uuids       \* number of tracking ids generated by the process

poolVars == <<listener, pumps, inprog, lookups, uuids>>

\* One call of newServerConn
VARIABLES
  servers,    \* p.servers, the configured endpoints
  retryCount, \* the loop counter
  lastServer, \* the endpoint of the last failed attempt
  tried,      \* the endpoints dialed so far, in order
  dialed      \* what the call returned, once done: the endpoint of the
              \* connection (conn) or the text of the error (err)

dialVars == <<servers, retryCount, lastServer, tried, dialed>>

vars == <<pumpVars, poolVars, dialVars>>

\* number of pumps the listener starts
MaxPumps == 2

\* number of tracking ids the process generates
MaxIds == 2

Pumps == 1..MaxPumps

\* st: "free" (not started), "dial", "header", "dispatch", "response",
\* "closed" (returned), "panic" (it panicked) or "killed" (it ended with
\* the process); c, s: "conn", "nil" or "closed"
NoPump == [st |-> "free", c |-> "nil", s |-> "nil", msg |-> 0, id |-> ""]

\* for loop of line 69: retryCount := 7
retries == 7

PoolIdle ==
  /\ listener = "accepting"
  /\ pumps = [p \in Pumps |-> NoPump]
  /\ inprog = {}
  /\ lookups = {}
  /\ uuids = 0

\* number of endpoints configured
MaxServers == 3

ServerName(i) == "s" \o ToString(i)

\* the configurations: 1 to MaxServers endpoints
Configs == {[i \in 1..n |-> ServerName(i)] : n \in 1..MaxServers}

NotDialed == [done |-> FALSE, conn |-> "", err |-> ""]

\* lines 67-69: the state at the start of the loop of newServerConn
DialStart(cfg) ==
  /\ servers = cfg
  /\ retryCount = retries
  /\ lastServer = ""
  /\ tried = << >>
  /\ dialed = NotDialed

DialIdle == DialStart(<<ServerName(1)>>)


NoHeader == messageHeader(0, 0, 0, 0)

NoSrc == [raw |-> << >>, tags |-> << >>]

\* kind: "passthrough", "bypass", "admitted", "rejected", "unread" (the body
\* of the Query could not be read) or "panic"; sync: the header was read at
\* the start of a client message; read: the bytes consumed, header
\* included; sent, recv: the bytes written upstream and to the client;
\* response: outcome of the response copy; code: code of the synthetic
\* reply written; filter: the filter the reactor sent to the control
\* channel, a function from keys to values (empty when it did not run);
\* kill: the error of the last kill; refreshed: the client deadline was set
\* again in the reactor; reset: the pump replaced the upstream socket after
\* the call
NoLast ==
  [kind |-> "none", err |-> FALSE, sync |-> FALSE, h |-> NoHeader, read |-> << >>,
   sent |-> << >>, recv |-> << >>, inspected |-> FALSE, mutated |-> FALSE,
   count |-> 0, indexes |-> << >>, ns |-> "", q |-> << >>, id |-> "",
   response |-> "none", code |-> 0, filter |-> << >>, kill |-> "none",
   refreshed |-> FALSE, reset |-> FALSE]

PumpIdle ==
  /\ cin = << >>
  /\ tags = << >>
  /\ nsent = 0
  /\ pc = "dial"
  /\ h = NoHeader
  /\ hsrc = NoSrc
  /\ cli = "open"
  /\ srv = "none"
  /\ ids = 0
  /\ leaked = FALSE
  /\ faults = FALSE
  /\ last = NoLast
  /\ up = << >>

Init == PumpIdle /\ PoolIdle /\ DialIdle

Min(a, b) == IF a < b THEN a ELSE b

Drop(s, n) == SubSeq(s, n + 1, Len(s))

\* n times the tag t
Tags(t, n) == [i \in 1..n |-> t]

Unread == Cardinality({i \in DOMAIN tags : tags[i] = "H"})

\* the client sends a message of one of its kinds
ClientSend ==
  /\ nsent < MaxMsgs
  /\ Unread < MaxUnread
  /\ pc \notin {"closed", "panic"}
  /\ \E kind \in Kinds :
       LET m == ClientKind(kind, nsent + 1)
       IN  /\ cin' = cin \o m
           /\ tags' = tags \o <<"H">> \o Tags("B", Len(m) - 1)
  /\ nsent' = nsent + 1
  /\ UNCHANGED <<pc, h, hsrc, cli, srv, ids, leaked, faults, last, up>>
  /\ UNCHANGED <<poolVars, dialVars>>

(***************************************************************************)
(* handleClientConnection: the first dial, the header read, the reconnect  *)
(***************************************************************************)

\* s, err := p.newServerConn(); on failure the client is closed
Dial ==
  /\ pc = "dial"
  /\ \/ /\ srv' = "open"
        /\ pc' = "header"
        /\ cli' = cli
     \/ /\ cli' = "closed"
        /\ pc' = "closed"
        /\ srv' = srv
  /\ UNCHANGED <<cin, tags, nsent, h, hsrc, ids, leaked, faults, last, up>>
  /\ UNCHANGED <<poolVars, dialVars>>

\* h, err := p.clientReadHeader(c): a header, or an error (end of stream,
\* short read, idle timeout), on which the pump returns and the deferred
\* s.Close() runs; a nil s makes it panic
clientReadHeader ==
  /\ pc = "header"
  /\ \/ /\ Len(cin) >= headerLen
        /\ h' = FromWire(cin, 0)
        /\ hsrc' = [raw |-> SubSeq(cin, 1, headerLen), tags |-> SubSeq(tags, 1, headerLen)]
        /\ cin' = Drop(cin, headerLen)
        /\ tags' = Drop(tags, headerLen)
        /\ pc' = "dispatch"
        /\ last' = NoLast
        /\ srv' = srv
        /\ up' = up
     \/ /\ Len(cin) < headerLen
        /\ pc' = IF srv = "none" THEN "panic" ELSE "closed"
        /\ srv' = IF srv = "none" THEN "none" ELSE "closed"
        /\ up' = << >>
        /\ UNCHANGED <<cin, tags, h, hsrc, last>>
  /\ UNCHANGED <<nsent, cli, ids, leaked, faults>>
  /\ UNCHANGED <<poolVars, dialVars>>

\* a pump that would go on with the socket it has after an error
ReconnectKeepsSocket ==
  /\ pc = "reconnect"
  /\ last' = [last EXCEPT !.reset = TRUE]
  /\ pc' = "header"
  /\ UNCHANGED <<cin, tags, nsent, h, hsrc, cli, srv, ids, leaked, faults, up>>
  /\ UNCHANGED <<poolVars, dialVars>>

\* after an error of handleMessage: s.Close(); s, _ = p.newServerConn().
\* What the server wrote on the closed socket is lost with it.
Reconnect ==
  /\ pc = "reconnect"
  /\ srv' \in {"open", "none"}
  /\ up' = << >>
  /\ last' = [last EXCEPT !.reset = TRUE]
  /\ pc' = "header"
  /\ UNCHANGED <<cin, tags, nsent, h, hsrc, cli, ids, leaked, faults>>
  /\ UNCHANGED <<poolVars, dialVars>>

(***************************************************************************)
(* handleMessage                                                           *)
(***************************************************************************)

\* outcome of a call of handleMessage, before it is stored: the fields of
\* last, the number of bytes of cin consumed, the tags of the bytes the
\* bytes sent were copied from ("P": written by the proxy itself) and
\* whether the call panicked, and the replies left unread on the upstream
\* socket
Blank ==
  [kind |-> "none", err |-> FALSE, sync |-> hsrc.tags[1] = "H", h |-> h,
   read |-> hsrc.raw, sent |-> << >>, recv |-> << >>, inspected |-> FALSE,
   mutated |-> FALSE, count |-> 0, indexes |-> << >>, ns |-> "", q |-> << >>,
   id |-> "", response |-> "none", code |-> 0, filter |-> << >>,
   kill |-> "none", refreshed |-> FALSE, reset |-> FALSE,
   used |-> 0, src |-> << >>, panic |-> FALSE, up |-> up]

\* the tags of the unread bytes once the call has consumed r.used of them:
\* what is left of a client message that was rejected is marked
Retag(r) ==
  LET rest == Drop(tags, r.used)
      n == r.h.MessageLength - headerLen - r.used
  IN  IF r.kind = "rejected" /\ r.sync
      THEN [i \in 1..Len(rest) |-> IF i <= n THEN "R" ELSE rest[i]]
      ELSE rest

Done(r) ==
  /\ cin' = Drop(cin, r.used)
  /\ tags' = Retag(r)
  /\ last' = [f \in DOMAIN NoLast |-> r[f]]
  /\ leaked' = (leaked \/ \E i \in DOMAIN r.src : r.src[i] = "R")
  /\ faults' = (faults \/ r.err)
  /\ ids' = IF r.id # "" THEN ids + 1 ELSE ids
  /\ pc' = IF r.panic THEN "panic" ELSE IF r.err THEN "reconnect" ELSE "header"
  /\ up' = r.up
  /\ UNCHANGED <<nsent, h, hsrc, cli, srv>>
  /\ UNCHANGED <<poolVars, dialVars>>

\* what copyMessage(client, server) can do: copy the reply, or fail on the
\* deadline or on another error
Responses == {"ok", "timeout", "error"}

\* copyMessage(client, server) copies the first reply that is unread on the
\* upstream socket; req is the request just written
Copied(req) == ServerReply(Head(up \o <<req>>))

\* the replies unread on the upstream socket after the response phase of
\* request req: a copy that fails leaves the reply to req behind
Unanswered(req, rsp) == IF rsp = "ok" THEN Tail(up \o <<req>>) ELSE up \o <<req>>

\* io.CopyN(server, client, n) once p unread bytes are consumed: [read]
\* more bytes are consumed, [wrote] of them reach the server; a write
\* failure loses what was read
CopyN(p, n, writeFails) ==
  LET m == IF n < 0 THEN 0 ELSE Min(n, Len(cin) - p)
  IN  [read |-> m,
       wrote |-> IF writeFails /\ n > 0 THEN 0 ELSE m,
       err |-> n > 0 /\ (writeFails \/ m < n)]

\* Passthrough with the reply copied back whatever the opcode
PassthroughAlwaysReplies(wfail, rsp) ==
  LET cp == CopyN(0, h.MessageLength - headerLen, wfail = 2)
      read == IF wfail = 1 THEN 0 ELSE cp.read
      wrote == IF wfail = 1 THEN 0 ELSE cp.wrote
      respond == wfail # 1 /\ ~cp.err
  IN  [Blank EXCEPT
         !.kind = "passthrough",
         !.err = wfail = 1 \/ cp.err \/ (respond /\ rsp # "ok"),
         !.used = read,
         !.read = hsrc.raw \o SubSeq(cin, 1, read),
         !.sent = IF wfail = 1 THEN << >> ELSE ToWire(h) \o SubSeq(cin, 1, wrote),
         !.src = IF wfail = 1 THEN << >> ELSE hsrc.tags \o SubSeq(tags, 1, wrote),
         !.recv = IF respond /\ rsp = "ok" THEN Copied(h.RequestID) ELSE << >>,
         !.up = IF respond THEN Unanswered(h.RequestID, rsp) ELSE up,
         !.response = IF respond THEN rsp ELSE "none"]

\* a message that is not a Query: header, body, and one reply if the
\* opcode has one.  wfail: the server write that fails (1 the header,
\* 2 the body, 0 none)
Passthrough(wfail, rsp) ==
  LET cp == CopyN(0, h.MessageLength - headerLen, wfail = 2)
      read == IF wfail = 1 THEN 0 ELSE cp.read
      wrote == IF wfail = 1 THEN 0 ELSE cp.wrote
      respond == wfail # 1 /\ ~cp.err /\ HasResponse(h.OpCode)
  IN  [Blank EXCEPT
         !.kind = "passthrough",
         !.err = wfail = 1 \/ cp.err \/ (respond /\ rsp # "ok"),
         !.used = read,
         !.read = hsrc.raw \o SubSeq(cin, 1, read),
         !.sent = IF wfail = 1 THEN << >> ELSE ToWire(h) \o SubSeq(cin, 1, wrote),
         !.src = IF wfail = 1 THEN << >> ELSE hsrc.tags \o SubSeq(tags, 1, wrote),
         !.recv = IF respond /\ rsp = "ok" THEN Copied(h.RequestID) ELSE << >>,
         !.up = IF respond THEN Unanswered(h.RequestID, rsp) ELSE up,
         !.response = IF respond THEN rsp ELSE "none"]

\* server.SetDeadline on a nil connection panics; a Query goes to
\* handleQueryRequest
handleMessage ==
  /\ pc = "dispatch"
  /\ \/ /\ srv = "none"
        /\ pc' = "panic"
        /\ UNCHANGED <<cin, tags, nsent, h, hsrc, cli, srv, ids, leaked, faults, last, up>>
        /\ UNCHANGED <<poolVars, dialVars>>
     \/ /\ srv # "none"
        /\ h.OpCode # OpQuery
        /\ \E wfail \in 0..2 :
             \E rsp \in IF HasResponse(h.OpCode) THEN Responses ELSE {"ok"} :
               Done(Passthrough(wfail, rsp))

(***************************************************************************)
(* handleQueryRequest                                                      *)
(***************************************************************************)

\* the reads of the body of a Query from the unread bytes b: 4 bytes of
\* flags, the namespace up to its zero byte, 8 bytes, one document, which
\* is then unmarshalled.  [end] is the number of bytes consumed.
ReadQuery(b) ==
  LET z == FirstZero(b, 4)
      a == z + 8
      size == GetInt32(b, a + 1)
      raw == SubSeq(b, a + 1, a + size)
      u == Unmarshal(raw)
  IN  IF Len(b) < 4 \/ z = 0 \/ Len(b) < a + 4
      THEN [ok |-> FALSE, end |-> Len(b)]
      ELSE IF size < 5 \/ size > 48 * 1024 * 1024
      THEN [ok |-> FALSE, end |-> a + 4]
      ELSE IF Len(b) < a + size
      THEN [ok |-> FALSE, end |-> Len(b)]
      ELSE IF ~u.ok
      THEN [ok |-> FALSE, end |-> a + size]
      ELSE [ok |-> TRUE, end |-> a + size,
            flags |-> SubSeq(b, 1, 4),
            fullCollectionName |-> SubSeq(b, 5, z),
            twoInt32 |-> SubSeq(b, z + 1, a),
            queryDoc |-> raw,
            q |-> u.d]

\* the parts written before the one that fails (all of them if wfail = 0)
WrittenParts(parts, wfail) ==
  IF wfail = 0 \/ wfail > Len(parts) THEN parts ELSE SubSeq(parts, 1, wfail - 1)

\* what the run of a forwarded Query depends on: the server write that
\* fails (1..5 a part, 6 the copy of the tail, 0 none), the outcome of the
\* response copy, whether the lookup of operations on the control channel
\* succeeds (bc), the error of the last kill (kill: none, a timeout or
\* another error), and the client write of a synthetic reply that fails
\* (1..3, 0 none)
ForwardRuns ==
  {[wfail |-> w, rsp |-> "ok", bc |-> TRUE, kill |-> "none", cfail |-> 0] : w \in 0..6}
    \cup {[wfail |-> 0, rsp |-> r, bc |-> FALSE, kill |-> "none", cfail |-> 0] :
            r \in {"timeout", "error"}}
    \cup {[wfail |-> 0, rsp |-> x[1], bc |-> TRUE, kill |-> "none", cfail |-> x[2]] :
            x \in {"timeout", "error"} \X (0..3)}
    \cup {[wfail |-> 0, rsp |-> x[1], bc |-> TRUE, kill |-> x[2], cfail |-> 0] :
            x \in {"timeout", "error"} \X {"timeout", "error"}}

\* a rejected Query only writes to the client
RejectRuns ==
  {[wfail |-> 0, rsp |-> "ok", bc |-> TRUE, kill |-> "none", cfail |-> c] : c \in 0..3}

\* the text of the error copyMessage returned
ErrText(rsp) == IF rsp = "timeout" THEN "i/o timeout" ELSE "EOF"

\* the answers of the control channel to checkForIndex: both lookups
\* succeed, Count() fails (and yields 0), or Indexes() fails (and yields
\* none)
Lookups == {"ok", "countFails", "indexesFail"}

\* lines 212-219: the Query read as r is inspected and rejected
Rejected(r, sp, count, indexes, cfail) ==
  [Blank EXCEPT
     !.kind = "rejected",
     !.used = r.end,
     !.read = hsrc.raw \o SubSeq(cin, 1, r.end),
     !.ns = sp.database \o "." \o sp.collection,
     !.q = r.q,
     !.inspected = TRUE,
     !.count = count,
     !.indexes = indexes,
     !.err = cfail # 0,
     !.recv = Flatten(WrittenParts(
                sendErrorToClient(h, NoIndexText(sp.collection), 17357), cfail)),
     !.code = 17357]

\* the header written upstream: patched when the document was replaced
PatchedHeader(hdr, queryDoc, newdoc) ==
  [hdr EXCEPT !.MessageLength = hdr.MessageLength - Len(queryDoc) + Len(newdoc)]

\* queryID := "" at line 171, the variable the reactor tests at line 258;
\* the id generated at line 222 is another variable, declared with := in
\* the inner block (id below)
queryID == ""

\* a reactor that would choose the code on the error of the last kill
ReactorByKill(h2, fullCollectionString, q, run) ==
  LET cause == IF run.kill = "none" THEN run.rsp ELSE run.kill
      reply == IF cause = "timeout" THEN sendErrorToClient(h2, TimeLimitText, 50)
               ELSE sendErrorToClient(h2, KilledText(ErrText(cause)), 14044)
  IN  [filter |-> OpFilter(fullCollectionString, queryID, q, Elapsed(run.rsp)),
       kill |-> run.kill, refreshed |-> run.bc,
       recv |-> IF run.bc THEN Flatten(WrittenParts(reply, run.cfail)) ELSE << >>,
       code |-> IF ~run.bc THEN 0 ELSE IF cause = "timeout" THEN 50 ELSE 14044]

\* lines 254-296: the response copy failed with run.rsp.  The filter is
\* built and sent; the kills and the reply are inside the branch of a
\* successful lookup; the code is chosen on the error of the copy
Reactor(h2, fullCollectionString, q, run) ==
  LET reply == IF run.rsp = "timeout"
               THEN sendErrorToClient(h2, TimeLimitText, 50)
               ELSE sendErrorToClient(h2, KilledText(ErrText(run.rsp)), 14044)
  IN  [filter |-> OpFilter(fullCollectionString, queryID, q, Elapsed(run.rsp)),
       kill |-> run.kill,
       refreshed |-> run.bc,
       recv |-> IF run.bc THEN Flatten(WrittenParts(reply, run.cfail)) ELSE << >>,
       code |-> IF ~run.bc THEN 0 ELSE IF run.rsp = "timeout" THEN 50 ELSE 14044]

\* lines 221-298: the Query read as r is written upstream, with document
\* doc (the client's own bytes when mutated is FALSE) under header h2, its
\* tail is copied, one reply is copied back, and the reactor (its outcome
\* is rx) runs if that copy fails
Forwarded(r, h2, doc, mutated, run, rx) ==
  LET parts == <<ToWire(h2), r.flags, r.fullCollectionName, r.twoInt32, doc>>
      srcs == <<IF mutated THEN Tags("P", 4) \o Drop(hsrc.tags, 4) ELSE hsrc.tags,
                SubSeq(tags, 1, 4),
                SubSeq(tags, 5, 4 + Len(r.fullCollectionName)),
                SubSeq(tags, 5 + Len(r.fullCollectionName),
                       12 + Len(r.fullCollectionName)),
                IF mutated THEN Tags("P", Len(doc))
                ELSE SubSeq(tags, r.end - Len(doc) + 1, r.end)>>
      written == Flatten(WrittenParts(parts, run.wfail))
      cp == CopyN(r.end, h2.MessageLength - Len(written), run.wfail = 6)
      tail == IF run.wfail \in 1..5 THEN [read |-> 0, wrote |-> 0, err |-> TRUE] ELSE cp
      failed == ~tail.err /\ run.rsp # "ok"
  IN  [Blank EXCEPT
         !.kind = IF mutated THEN "admitted" ELSE "bypass",
         !.mutated = mutated,
         !.q = r.q,
         !.ns = BytesStr(SubSeq(r.fullCollectionName, 1, Len(r.fullCollectionName) - 1)),
         !.used = r.end + tail.read,
         !.read = hsrc.raw \o SubSeq(cin, 1, r.end + tail.read),
         !.sent = written \o SubSeq(cin, r.end + 1, r.end + tail.wrote),
         !.src = Flatten(WrittenParts(srcs, run.wfail))
                   \o SubSeq(tags, r.end + 1, r.end + tail.wrote),
         !.response = IF tail.err THEN "none" ELSE run.rsp,
         !.err = tail.err \/ run.rsp # "ok",
         !.recv = IF tail.err THEN << >>
                  ELSE IF run.rsp = "ok" THEN Copied(h2.RequestID)
                  ELSE rx.recv,
         !.up = IF tail.err THEN up ELSE Unanswered(h2.RequestID, run.rsp),
         !.code = IF failed THEN rx.code ELSE 0,
         !.filter = IF failed THEN rx.filter ELSE << >>,
         !.kill = IF failed THEN rx.kill ELSE "none",
         !.refreshed = failed /\ rx.refreshed]

\* Bypass without the test on system collections
BypassNoSystem(fullCollectionName, q) ==
  \/ HasSuffix(fullCollectionName, cmdCollectionSuffix)
  \/ HasSuffix(fullCollectionName, indexCollectionSuffix)
  \/ Len(q) = 0

\* namespaces and documents that are forwarded without inspection
Bypass(fullCollectionName, q) ==
  \/ HasSuffix(fullCollectionName, cmdCollectionSuffix)
  \/ HasSuffix(fullCollectionName, indexCollectionSuffix)
  \/ Contains(fullCollectionName, systemCollection)
  \/ Len(q) = 0

\* the call panics once the Query is read as r
Crash(r, ns) ==
  [Blank EXCEPT !.kind = "panic", !.panic = TRUE, !.used = r.end,
                !.read = hsrc.raw \o SubSeq(cin, 1, r.end),
                !.ns = ns, !.q = r.q]

\* what is known of a Query once checkForIndex has run on it
Inspected(x, count, indexes) ==
  [x EXCEPT !.inspected = TRUE, !.count = count, !.indexes = indexes]

\* lines 221-298: the admitted Query is mutated (mq), marshalled (newdoc)
\* and forwarded under a patched header
Admit(r, ns, count, indexes, id, mq, newdoc) ==
  IF mq.panic
  THEN Done([Inspected(Crash(r, ns), count, indexes) EXCEPT !.id = id])
  ELSE \E run \in ForwardRuns :
         Done([Inspected(Forwarded(r, PatchedHeader(h, r.queryDoc, newdoc),
                                   newdoc, TRUE, run,
                                   Reactor(PatchedHeader(h, r.queryDoc, newdoc),
                                           ns, mq.q, run)), count, indexes)
                 EXCEPT !.id = id])

\* lines 212-222: the outcome chk of checkForIndex decides
Check(r, ns, sp, count, indexes, chk, id, mq) ==
  IF chk.panic
  THEN Done(Crash(r, ns))
  ELSE IF ~chk.ok
  THEN \E run \in RejectRuns : Done(Rejected(r, sp, count, indexes, run.cfail))
  ELSE Admit(r, ns, count, indexes, id, mq, Marshal(mq.q))

\* lines 353-364: the collection is counted and its indexes are listed on
\* the control channel
Lookup(r, ns, sp, cl, id) ==
  \E lookup \in Lookups :
    LET count == IF lookup = "countFails" THEN 0 ELSE cl.count
        indexes == IF lookup = "ok" /\ count # 0 THEN cl.indexes ELSE << >>
    IN  Check(r, ns, sp, count, indexes, checkForIndex(count, indexes, r.q),
              id, mutateQuery(r.q, RemoteAddr, id))

\* lines 204-211: the namespace ns is split and the collection looked up
Inspect(r, ns, sp, id) ==
  IF sp.panic
  THEN Done(Crash(r, ns))
  ELSE Lookup(r, ns, sp, Cluster(sp.database \o "." \o sp.collection), id)

\* lines 169-203: the Query read as r is forwarded as it is or inspected
Dispatch(r, ns) ==
  IF ~r.ok
  THEN Done([Blank EXCEPT !.kind = "unread", !.err = TRUE, !.used = r.end,
                          !.read = hsrc.raw \o SubSeq(cin, 1, r.end)])
  ELSE IF Bypass(r.fullCollectionName, r.q)
  THEN \E run \in ForwardRuns :
         Done(Forwarded(r, h, r.queryDoc, FALSE, run, Reactor(h, BytesStr(ns), r.q, run)))
  ELSE Inspect(r, BytesStr(ns), splitDatabaseCollection(BytesStr(ns)),
               NewUUID(ids + 1))

handleQueryRequest ==
  /\ pc = "dispatch"
  /\ srv # "none"
  /\ h.OpCode = OpQuery
  /\ Dispatch(ReadQuery(cin),
              SubSeq(ReadQuery(cin).fullCollectionName, 1,
                     Len(ReadQuery(cin).fullCollectionName) - 1))

Next ==
  \/ ClientSend
  \/ Dial
  \/ clientReadHeader
  \/ handleMessage
  \/ handleQueryRequest
  \/ Reconnect

Spec == Init /\ [][Next]_vars

(***************************************************************************)
(* ListenAndRelay: the listener and its pumps                              *)
(***************************************************************************)

\* what a client sends to a pump: 1 an Update, 2 a Query that is admitted
\* and tagged, 3 a Query whose maxTimeMS is an int32, 4 a Query with an
\* empty document (not inspected)
PoolKinds == 1..4

PoolNs == "app.users"

PoolQ(i) ==
  CASE i = 2 -> <<Email("x")>>
    [] i = 3 -> <<Wrapped(<<Email("x")>>), DocElem("maxTimeMS", I32(9))>>
    [] OTHER -> << >>

\* the document the pump p wrote upstream for its Query
ForwardedDoc(p) ==
  IF pumps[p].id = "" THEN PoolQ(pumps[p].msg)
  ELSE mutateQuery(PoolQ(pumps[p].msg), RemoteAddr, pumps[p].id).q

\* the operation the server runs for the Query of pump p
OwnOp(p) == [owner |-> p, ns |-> PoolNs, q |-> ForwardedDoc(p)]

\* an operation as the server lists it: op, ns and the leaves of its query
ServerFields(op) ==
  flattenQuery(Doc(op.q), "query", ("op" :> Str("query")) @@ ("ns" :> Str(op.ns)))

\* the operation satisfies every constraint of the filter f but the one on
\* its running time
Matches(op, f) ==
  \A k \in DOMAIN f \ {"secs_running"} :
    k \in DOMAIN ServerFields(op) /\ ServerFields(op)[k] = f[k]

\* the constraint of the filter on the tracking id
Track(f) ==
  IF "query.$queryGuard.track" \in DOMAIN f THEN f["query.$queryGuard.track"]
  ELSE Str("")

\* a panic that nothing recovers ends the process: the pump p that raised
\* it, every other running pump and the listener
Panics(p) ==
  /\ pumps' = [x \in Pumps |->
                IF x = p THEN [pumps[x] EXCEPT !.st = "panic"]
                ELSE IF pumps[x].st \in {"free", "closed"} THEN pumps[x]
                ELSE [pumps[x] EXCEPT !.st = "killed"]]
  /\ listener' = "dead"
  /\ lookups' = {}
  /\ UNCHANGED <<inprog, uuids>>

\* the pump p goes on (or ends) by itself
Goes(p, new) ==
  /\ pumps' = [pumps EXCEPT ![p] = new]
  /\ UNCHANGED listener

\* lines 476-482: conn, err := ln.Accept(); the error is logged and the
\* pump is started in both cases, with a nil conn after an error
Accept ==
  /\ listener = "accepting"
  /\ \E p \in Pumps :
       /\ pumps[p].st = "free"
       /\ \A x \in 1..(p - 1) : pumps[x].st # "free"
       /\ \E c \in {"conn", "nil"} :
            Goes(p, [NoPump EXCEPT !.st = "dial", !.c = c])
  /\ lookups' = {}
  /\ UNCHANGED <<inprog, uuids, pumpVars, dialVars>>

\* lines 87-92: the first dial; on failure c.Close(), which panics on a
\* nil c
PoolDial(p) ==
  /\ listener = "accepting"
  /\ pumps[p].st = "dial"
  /\ \/ Goes(p, [pumps[p] EXCEPT !.st = "header", !.s = "conn"])
        /\ lookups' = {} /\ UNCHANGED <<inprog, uuids>>
     \/ IF pumps[p].c = "nil"
        THEN Panics(p)
        ELSE Goes(p, [pumps[p] EXCEPT !.st = "closed", !.c = "closed"])
               /\ lookups' = {} /\ UNCHANGED <<inprog, uuids>>
  /\ UNCHANGED <<pumpVars, dialVars>>

\* lines 103-110: clientReadHeader sets the deadline on c, which panics on
\* a nil c; on a read error the pump returns and the deferred s.Close()
\* runs, which panics on a nil s
PoolHeader(p) ==
  /\ listener = "accepting"
  /\ pumps[p].st = "header"
  /\ IF pumps[p].c = "nil"
     THEN Panics(p)
     ELSE \/ \E m \in PoolKinds :
               Goes(p, [pumps[p] EXCEPT !.st = "dispatch", !.msg = m])
                 /\ lookups' = {} /\ UNCHANGED <<inprog, uuids>>
          \/ IF pumps[p].s = "nil"
             THEN Panics(p)
             ELSE Goes(p, [pumps[p] EXCEPT !.st = "closed", !.s = "closed"])
                    /\ lookups' = {} /\ UNCHANGED <<inprog, uuids>>
  /\ UNCHANGED <<pumpVars, dialVars>>

\* the Query of pump p is written upstream with tracking id id ("" when it
\* is not inspected) and the server starts to run it
Starts(p, id) ==
  /\ Goes(p, [pumps[p] EXCEPT !.st = "response", !.id = id])
  /\ inprog' = inprog \cup {[owner |-> p, ns |-> PoolNs,
                              q |-> IF id = "" THEN PoolQ(pumps[p].msg)
                                    ELSE mutateQuery(PoolQ(pumps[p].msg),
                                                     RemoteAddr, id).q]}
  /\ uuids' = IF id = "" THEN uuids ELSE uuids + 1
  /\ lookups' = {}

\* lines 140-251: handleMessage up to the response phase.  The deadline
\* is set on s first, which panics on a nil s; a message that is not a
\* Query is forwarded; a Query is forwarded as it is, or inspected and
\* then tagged, and the mutator may panic
PoolMessage(p) ==
  /\ listener = "accepting"
  /\ pumps[p].st = "dispatch"
  /\ IF pumps[p].s = "nil"
     THEN Panics(p)
     ELSE IF pumps[p].msg = 1
     THEN Goes(p, [pumps[p] EXCEPT !.st = "header", !.msg = 0])
            /\ lookups' = {} /\ UNCHANGED <<inprog, uuids>>
     ELSE IF Bypass(CString(PoolNs), PoolQ(pumps[p].msg))
     THEN Starts(p, "")
     ELSE IF mutateQuery(PoolQ(pumps[p].msg), RemoteAddr, NewUUID(uuids + 1)).panic
     THEN Panics(p)
     ELSE uuids < MaxIds /\ Starts(p, NewUUID(uuids + 1))
  /\ UNCHANGED <<pumpVars, dialVars>>

\* lines 253-298 and 111-117: the response is copied back, or the copy
\* fails: the reactor sends its filter, kills what the lookup found (bc:
\* the lookup succeeded), and the pump replaces its upstream socket
\* (line 112), with which the server ends what that socket was running
\* (lookups holds the lookup of the step just taken)
PoolResponse(p) ==
  /\ listener = "accepting"
  /\ pumps[p].st = "response"
  /\ \/ /\ Goes(p, [pumps[p] EXCEPT !.st = "header", !.msg = 0, !.id = ""])
        /\ inprog' = inprog \ {OwnOp(p)}
        /\ lookups' = {}
        /\ UNCHANGED uuids
     \/ \E bc \in BOOLEAN, s \in {"conn", "nil"} :
          \E found \in SUBSET {op \in inprog :
                     bc /\ Matches(op, OpFilter(PoolNs, queryID, ForwardedDoc(p),
                                               messageTimeout))} :
            /\ Goes(p, [pumps[p] EXCEPT !.st = "header", !.msg = 0, !.id = "", !.s = s])
            /\ inprog' = inprog \ (found \cup {OwnOp(p)})
            /\ lookups' =
                 {[by |-> p, id |-> pumps[p].id,
                   track |-> Track(OpFilter(PoolNs, queryID, ForwardedDoc(p),
                                            messageTimeout)),
                   owners |-> {op.owner : op \in found}]}
            /\ UNCHANGED uuids
  /\ UNCHANGED <<pumpVars, dialVars>>

PoolNext ==
  \/ Accept
  \/ \E p \in Pumps : PoolDial(p)
  \/ \E p \in Pumps : PoolHeader(p)
  \/ \E p \in Pumps : PoolMessage(p)
  \/ \E p \in Pumps : PoolResponse(p)

PoolSpec == Init /\ [][PoolNext]_vars

(***************************************************************************)
(* newServerConn                                                           *)
(***************************************************************************)

\* a dialer that would choose among all the endpoints
TargetsAll(cfg) == {cfg[i] : i \in DOMAIN cfg}

\* lines 70-73: p.servers[0], or p.servers[rand.Intn(l-1)] when l > 1
Targets(cfg) ==
  IF Len(cfg) > 1 THEN {cfg[i + 1] : i \in 0..(Len(cfg) - 2)} ELSE {cfg[1]}

\* lines 69-82: one turn of the loop: net.Dial to the endpoint chosen; the
\* connection is returned, or the endpoint is remembered and the counter
\* decremented
Attempt ==
  /\ ~dialed.done
  /\ retryCount > 0
  /\ \E server \in Targets(servers) :
       /\ tried' = Append(tried, server)
       /\ \/ /\ dialed' = [done |-> TRUE, conn |-> server, err |-> ""]
             /\ UNCHANGED <<retryCount, lastServer>>
          \/ /\ lastServer' = server
             /\ retryCount' = retryCount - 1
             /\ UNCHANGED dialed
  /\ UNCHANGED <<servers, pumpVars, poolVars>>

\* line 83: the loop ended without a connection
Exhausted ==
  /\ ~dialed.done
  /\ retryCount = 0
  /\ dialed' = [done |-> TRUE, conn |-> "", err |-> "Couldn't connect to " \o lastServer]
  /\ UNCHANGED <<servers, retryCount, lastServer, tried, pumpVars, poolVars>>

DialInit == PumpIdle /\ PoolIdle /\ \E cfg \in Configs : DialStart(cfg)

DialNext == Attempt \/ Exhausted

\* the loop body always completes: net.Dial returns and time.Sleep ends
DialSpec == DialInit /\ [][DialNext]_vars /\ WF_vars(DialNext)

(***************************************************************************)
(* Reading what was written                                                *)
(***************************************************************************)

\* bytes is one whole message: a header and as many bytes as it announces
OneMessage(bytes) ==
  Len(bytes) >= headerLen /\ FromWire(bytes, 0).MessageLength = Len(bytes)

\* bytes is one Reply to request req whose document carries the code
SyntheticReply(bytes, req, code) ==
  /\ OneMessage(bytes)
  /\ Len(bytes) > headerLen + Len(errorBytes)
  /\ FromWire(bytes, 0).OpCode = OpReply
  /\ FromWire(bytes, 0).ResponseTo = req
  /\ LET doc == Unmarshal(Drop(bytes, headerLen + Len(errorBytes)))
     IN  doc.ok /\ \E i \in DOMAIN doc.d : doc.d[i] = DocElem("code", I32(code))

\* the call that just returned handled a message read at the start of a
\* client message
Handled(kinds) == last.kind \in kinds /\ last.sync

\* the Query as the server receives it
SentQuery == ReadQuery(Drop(last.sent, headerLen))

(***************************************************************************)
(* C1.  A Query that checkForIndex rejects never reaches the server, not   *)
(* even its trailing bytes, and the client gets exactly one Reply with     *)
(* responseTo = the request id and code 17357 (when the write succeeds).   *)
(***************************************************************************)
C1_RejectedNeverUpstream ==
  /\ ~leaked
  /\ Handled({"rejected"}) /\ ~last.err =>
       /\ last.sent = << >>
       /\ SyntheticReply(last.recv, last.h.RequestID, 17357)

(***************************************************************************)
(* C2.  A Query on a user namespace with a non-empty document is forwarded *)
(* if and only if the collection counts 0 documents or some index has a    *)
(* first key that, "-" trimmed and ignoring case, equals the first         *)
(* indexable field of the query: the first key of the inner document when  *)
(* the first key is query/$query with a non-empty document as value (also  *)
(* when $query is the only top-level key), else the orderby, else the      *)
(* query's own first key.                                                  *)
(***************************************************************************)

\* the first indexable field as the rule above words it
IndexableField(query) ==
  LET ob == keyIndex(query, "orderby")
  IN  IF TrimLeft(query[1].Name, "$") = "query"
      THEN IF IsDoc(query[1].Value) /\ Len(query[1].Value[2]) > 0
           THEN query[1].Value[2][1].Name
           ELSE IF ob > 0 /\ IsDoc(query[ob].Value) /\ Len(query[ob].Value[2]) > 0
           THEN query[ob].Value[2][1].Name
           ELSE IF ob > 0 /\ IsString(query[ob].Value)
           THEN Trim(query[ob].Value[2], "-")
           ELSE query[1].Name
      ELSE query[1].Name

\* the decision the rule prescribes on what the control channel answered
ShouldAdmit(count, indexes, query) ==
  \/ count = 0
  \/ \E i \in 1..Len(indexes) :
       EqualFold(Trim(indexes[i][1], "-"), IndexableField(query))

C2_AdmissionDecision ==
  Handled({"admitted", "rejected"}) =>
    (last.kind = "admitted" <=> ShouldAdmit(last.count, last.indexes, last.q))

(***************************************************************************)
(* C3.  When the pump is back at header-wait after a call that reported no *)
(* error, exactly MessageLength bytes of the message have been consumed    *)
(* from the client stream, so the next 16 bytes read as a header are the   *)
(* true header of the client's next message.                               *)
(***************************************************************************)
C3_ClientFraming ==
  pc = "header" /\ Handled({"passthrough", "bypass", "admitted", "rejected"})
                /\ ~last.err =>
    /\ Len(last.read) = last.h.MessageLength
    /\ cin = << >> \/ tags[1] = "H"

(***************************************************************************)
(* C4.  A message whose opcode is not Query and whose handling ends        *)
(* without I/O error is written to the server as its 16 header bytes       *)
(* followed by its MessageLength - 16 body bytes, unmodified and in order; *)
(* exactly one server message is copied back when the opcode has a         *)
(* response (GetMore) and none otherwise.                                  *)
(***************************************************************************)
C4_TransparentPassthrough ==
  last.kind # "none" /\ last.sync /\ last.h.OpCode # OpQuery /\ ~last.err =>
    /\ last.kind = "passthrough"
    /\ last.sent = last.read
    /\ Len(last.sent) = last.h.MessageLength
    /\ SubSeq(last.sent, 1, headerLen) = ToWire(last.h)
    /\ IF last.h.OpCode = OpGetMore
       THEN OneMessage(last.recv)
       ELSE last.recv = << >>

\* a GetMore with a body went through and its reply came back
C4_Witness ==
  /\ Handled({"passthrough"}) /\ ~last.err
  /\ last.h.OpCode = OpGetMore
  /\ Len(last.sent) > headerLen
  /\ OneMessage(last.recv)

(***************************************************************************)
(* C5.  A Query whose namespace ends in ".$cmd", ends in ".indexes" or     *)
(* contains ".system.", and a Query whose document is empty, is forwarded  *)
(* without inspection or mutation (no lookup on the control channel, no    *)
(* tracking id); the bytes written to the server are the bytes read from   *)
(* the client, header included, and one response message is copied back.   *)
(***************************************************************************)

\* the namespaces the rule exempts, on the namespace as a string
ExemptNamespace(ns) ==
  \/ HasSuffix(ns, ".$cmd")
  \/ HasSuffix(ns, ".indexes")
  \/ Contains(ns, ".system.")

C5_Bypass ==
  /\ Handled({"bypass", "admitted", "rejected", "panic"})
  /\ ExemptNamespace(last.ns) \/ last.q = << >>
  => /\ last.kind = "bypass"
     /\ ~last.inspected /\ ~last.mutated /\ last.id = ""
     /\ last.count = 0 /\ last.indexes = << >>
     /\ ~last.err => /\ last.sent = last.read
                     /\ Len(last.sent) = last.h.MessageLength
                     /\ OneMessage(last.recv)

\* a Query on a system collection, with a document and a selector after
\* it, went through with its reply
C5_Witness ==
  /\ Handled({"bypass"}) /\ ~last.err
  /\ Contains(last.ns, ".system.") /\ last.q # << >>
  /\ last.sent = last.read
  /\ Len(last.sent) > headerLen + 4 + Len(last.ns) + 1 + 8 + Len(Marshal(last.q))
  /\ OneMessage(last.recv)

(***************************************************************************)
(* C6.  The first element of every mutated document is the client's own    *)
(* query/$query element when the client's first key, "$" stripped, is      *)
(* query (whether or not other keys follow it), and { $query: <original> } *)
(* otherwise: a wrapped query is never wrapped again.                      *)
(***************************************************************************)
C6_WrappedOnce ==
  Handled({"admitted"}) /\ ~last.err /\ SentQuery.ok =>
    SentQuery.q[1] = IF TrimLeft(last.q[1].Name, "$") = "query"
                     THEN last.q[1]
                     ELSE DocElem("$query", Doc(last.q))

(***************************************************************************)
(* C7.  Every admitted document forwarded to the server has exactly one    *)
(* top-level $queryGuard entry, whatever the client sent, and that entry   *)
(* is { remoteaddr, track } with the tracking id generated for the query.  *)
(***************************************************************************)
C7_OneQueryGuard ==
  Handled({"admitted"}) /\ ~last.err /\ SentQuery.ok =>
    LET d == SentQuery.q
        guards == {i \in DOMAIN d : d[i].Name = "$queryGuard"}
    IN  /\ Cardinality(guards) = 1
        /\ \A i \in guards : d[i] = queryGuard(RemoteAddr, last.id)

(***************************************************************************)
(* C8.  A query that checkForIndex admits is forwarded with a top-level    *)
(* maxTimeMS entry (key compared ignoring case and a leading "$") of at    *)
(* most messageTimeout minus one second, in milliseconds, whatever value   *)
(* the client supplied: the client's own key with min(client value, cap)   *)
(* if the wrapped query had one, else $maxTimeMS = cap appended.           *)
(***************************************************************************)
C8_TimeLimitCap ==
  /\ last.sync /\ last.inspected /\ last.kind # "rejected" => last.kind = "admitted"
  /\ Handled({"admitted"}) /\ ~last.err /\ SentQuery.ok =>
       LET d == SentQuery.q
           i == keyIndex(d, "maxTimeMS")
           c == IF TrimLeft(last.q[1].Name, "$") = "query"
                THEN keyIndex(last.q, "maxTimeMS") ELSE 0
       IN  /\ i > 0
           /\ d[i].Value[2] <= maxTimeMS
           /\ IF c > 0
              THEN /\ d[i].Name = last.q[c].Name
                   /\ d[i].Value[2] = Min(last.q[c].Value[2], maxTimeMS)
              ELSE d[i] = DocElem("$maxTimeMS", Dbl(maxTimeMS))

(***************************************************************************)
(* C9.  In a run without I/O error, every message the proxy writes has a   *)
(* header whose MessageLength is the number of bytes written for it; for a *)
(* mutated query the length is the original one minus the length of the    *)
(* original document plus the length of the new one, the other header      *)
(* fields are unchanged and the bytes after the new document are the       *)
(* original tail.                                                          *)
(***************************************************************************)
C9_LengthInvariant ==
  ~faults /\ last.kind \in {"passthrough", "bypass", "admitted", "rejected"} =>
    /\ last.sent # << >> => OneMessage(last.sent)
    /\ last.recv # << >> => OneMessage(last.recv)
    /\ last.kind = "admitted" /\ last.sync =>
         LET h2 == FromWire(last.sent, 0)
             old == Marshal(last.q)
             new == SentQuery.queryDoc
             fixed == headerLen + 4 + Len(last.ns) + 1 + 8
         IN  /\ SentQuery.ok
             /\ h2 = [last.h EXCEPT !.MessageLength = @ - Len(old) + Len(new)]
             /\ Drop(last.sent, fixed + Len(new)) = Drop(last.read, fixed + Len(old))
             /\ Len(Drop(last.read, fixed + Len(old)))
                  = last.h.MessageLength - 16 - 4 - (Len(last.ns) + 1) - 8 - Len(old)

(***************************************************************************)
(* C10.  The pump does not go on to the next client header after a Query   *)
(* it forwarded in full unless the server's response was forwarded to the  *)
(* client in full or a synthetic reply was written for it.                 *)
(***************************************************************************)
C10_ReplyBeforeNextHeader ==
  pc = "header" /\ Handled({"bypass", "admitted"}) /\ last.response # "none" =>
    \/ last.response = "ok" /\ OneMessage(last.recv)
    \/ last.code # 0

(***************************************************************************)
(* C11.  When the response copy fails for an admitted, tagged query, the   *)
(* filter sent to the control channel is { op: "query", ns: <namespace>,   *)
(* "query.$queryGuard.track": <id> } with the id embedded in the forwarded *)
(* document; the untagged filter is for bypassed queries only.             *)
(***************************************************************************)

\* the tracking id the server received in the document
SentTrack ==
  LET d == SentQuery.q
      i == CHOOSE i \in DOMAIN d : d[i].Name = "$queryGuard" /\ d[i].Value[2][2].Name = "track"
  IN  d[i].Value[2][2].Value[2]

\* the filter of a tagged lookup
TaggedFilter(ns, id) ==
  ("op" :> Str("query")) @@ ("ns" :> Str(ns)) @@ ("query.$queryGuard.track" :> Str(id))

C11_TaggedLookup ==
  Handled({"admitted"}) /\ last.response \in {"timeout", "error"} =>
    last.filter = TaggedFilter(last.ns, SentTrack)

(***************************************************************************)
(* C12.  Whenever the copy of the response of a forwarded query fails, the *)
(* reactor writes one synthetic Reply to the client, whether the lookup on *)
(* the control channel succeeds or fails and whatever the kills return.    *)
(***************************************************************************)
C12_ReactorAlwaysReplies ==
  Handled({"bypass", "admitted"}) /\ last.response \in {"timeout", "error"} =>
    /\ last.code \in {50, 14044}
    /\ OneMessage(last.recv) => SyntheticReply(last.recv, last.h.RequestID, last.code)

(***************************************************************************)
(* C13.  A panic raised while one pump handles a message, or after a       *)
(* failed accept, ends that pump only: the other pumps keep running and    *)
(* the listener keeps accepting.                                           *)
(***************************************************************************)
C13_FailureContainment ==
  \A p \in Pumps :
    pumps[p].st = "panic" =>
      /\ listener = "accepting"
      /\ \A x \in Pumps \ {p} : pumps[x].st # "killed"

(***************************************************************************)
(* C14.  When the pump has terminated, both sockets it owns are closed:    *)
(* the client socket and the upstream socket in use (none is in use after  *)
(* a failed first dial).                                                   *)
(***************************************************************************)
C14_BothSocketsClosed ==
  pc = "closed" => cli = "closed" /\ srv # "open"

(***************************************************************************)
(* C15.  After a failed reconnect the pump has no upstream socket, and it  *)
(* never uses the missing socket: it does not abort on it, neither in      *)
(* handling a further message nor in closing it.                           *)
(***************************************************************************)
C15_FailedReconnectCloses ==
  srv = "none" => pc # "panic"

\* bytes is one Reply whose document carries the text as its $err
ReplyText(bytes, text) ==
  LET doc == Unmarshal(Drop(bytes, headerLen + Len(errorBytes)))
  IN  doc.ok /\ \E i \in DOMAIN doc.d : doc.d[i] = DocElem("$err", Str(text))

(***************************************************************************)
(* C16.  A synthetic reply written after a failed response copy carries    *)
(* code 50 and the text naming the message timeout if and only if the copy *)
(* failed on a timeout, and code 14044 with the text of the copy error     *)
(* otherwise, whatever error the kills returned; the client deadline is    *)
(* refreshed before the reply is written.                                  *)
(***************************************************************************)
C16_ErrorCode ==
  Handled({"bypass", "admitted"}) /\ last.response \in {"timeout", "error"}
      /\ last.recv # << >> =>
    /\ last.refreshed
    /\ last.code = IF last.response = "timeout" THEN 50 ELSE 14044
    /\ OneMessage(last.recv) =>
         /\ SyntheticReply(last.recv, last.h.RequestID,
                           IF last.response = "timeout" THEN 50 ELSE 14044)
         /\ ReplyText(last.recv,
                      IF last.response = "timeout" THEN TimeLimitText
                      ELSE KilledText(ErrText(last.response)))

\* the copy failed on an error that is no timeout, the last kill timed
\* out, and the whole reply was written
C16_Witness ==
  /\ Handled({"admitted"})
  /\ last.response = "error" /\ last.kill = "timeout"
  /\ last.refreshed
  /\ OneMessage(last.recv)
  /\ last.code = 14044

(***************************************************************************)
(* C17.  After every call of handleMessage that returns an error the pump  *)
(* replaces the upstream socket before it reads the next header, and after *)
(* no other call: when a header is read the socket in use holds no unread  *)
(* reply, so a reply copied to the client answers the request just         *)
(* forwarded; a rejected Query whose reply was written does not reset.     *)
(***************************************************************************)
C17_UpstreamReset ==
  /\ pc = "header" => up = << >> /\ (last.reset <=> last.err)
  /\ Handled({"passthrough", "bypass", "admitted"}) /\ last.response = "ok"
       /\ OneMessage(last.recv) =>
         FromWire(last.recv, 0).ResponseTo = last.h.RequestID

\* the response copy of a forwarded Query timed out, its reply is lost with
\* the socket, and the pump waits for the next header on a new socket
C17_Witness ==
  /\ pc = "header" /\ srv = "open"
  /\ Handled({"bypass", "admitted"})
  /\ last.response = "timeout" /\ last.err /\ last.reset
  /\ up = << >>

(***************************************************************************)
(* C18.  With several pumps running, the filter that the reactor of a      *)
(* tagged query sends to the control channel constrains                    *)
(* query.$queryGuard.track to the tracking id of that query, and every     *)
(* operation it finds and kills is the one of its own connection, also     *)
(* when another connection runs the same predicate on the same namespace.  *)
(***************************************************************************)
C18_KillIsolation ==
  \A l \in lookups :
    l.id # "" => l.track = Str(l.id) /\ l.owners \subseteq {l.by}

\* the reactor of a tagged query found its own operation while another
\* pump was waiting for the response to the same query
C18_Witness ==
  \E l \in lookups :
    /\ l.id # "" /\ l.owners = {l.by}
    /\ \E x \in Pumps \ {l.by} :
         /\ pumps[x].st = "response" /\ pumps[x].msg = 2
         /\ OwnOp(x) \in inprog

\* the endpoints an attempt may target with the configuration at hand
Dialable ==
  IF Len(servers) = 1 THEN {servers[1]}
  ELSE {servers[i] : i \in 1..(Len(servers) - 1)}

\* what holds at every point of a call of the dialer
DialerSafe ==
  /\ Len(tried) <= 7
  /\ \A i \in DOMAIN tried : tried[i] \in Dialable
  /\ dialed.done /\ dialed.err = "" =>
       /\ dialed.conn = tried[Len(tried)]
       /\ Len(tried) = (7 - retryCount) + 1
  /\ dialed.done /\ dialed.err # "" =>
       /\ Len(tried) = 7
       /\ dialed.err = "Couldn't connect to " \o tried[7]
  /\ ~dialed.done => Len(tried) = 7 - retryCount

(***************************************************************************)
(* C19.  The dialer always returns.  It makes at most 7 attempts, each to  *)
(* the sole endpoint or, with N > 1 endpoints, to one of the first N-1; it *)
(* returns the connection of the first attempt that succeeds, and after 7  *)
(* failed attempts a failure naming the endpoint of the 7th.               *)
(***************************************************************************)
C19_DialerTerminates ==
  []DialerSafe /\ <>dialed.done

\* seven attempts failed, not all to the same endpoint, and the failure
\* was returned
C19_Witness ==
  /\ dialed.done /\ dialed.err # ""
  /\ Len(servers) = 3
  /\ Len(tried) = 7 /\ tried[1] # tried[7]

(***************************************************************************)
(* C20.  Every well-framed Query, whatever its namespace and its document, *)
(* ends in one of three outcomes: it is forwarded, it is rejected with a   *)
(* synthetic reply, or an error is returned to the pump.  None makes the   *)
(* inspector, the mutator or the namespace split panic.                    *)
(***************************************************************************)
C20_NoAbnormalAbort ==
  last.sync /\ last.h.OpCode = OpQuery =>
    /\ last.kind \in {"bypass", "admitted", "rejected", "unread"}
    /\ pc # "panic" \/ srv = "none"

====
